---- MODULE Spec2Model ----
(***************************************************************************)
(* Model of the PIPER harness of gpt_C_plus_plus:                          *)
(*   - the telemetry poller  PIPER/monitoring/monitor.py (GreyskullMonitor *)
(*     and its main), specification SpecMonitor;                           *)
(*   - the benchmark suite   PIPER/benchmark/criteo_preprocessing.py       *)
(*     (PIPERBenchmarkSuite and its main), specification SpecSuite, and    *)
(*     SpecSuiteRuns for a caller that calls run_full_suite twice;         *)
(*   - the operators of PIPER/examples and their unit test, specification  *)
(*     SpecOperators;                                                      *)
(*   - benchmark_throughput of the two example scripts, which together     *)
(*     with the suite form specification SpecBenchmarks;                   *)
(*   - the timing of one run of the poller with interval 0.1 s and         *)
(*     duration 0.5 s, specification SpecScenario.                         *)
(* The programs are separate entry points and never run together, so each  *)
(* specification moves its own variables and leaves the others alone.      *)
(***************************************************************************)
EXTENDS Integers, Sequences, FiniteSets, TLC

VARIABLES
    \* ---- monitor.py ----
    mpc,             \* position of the monitor process
    duration,        \* args.duration: Null, or Num(d)
    interval,        \* self.interval
    output,          \* args.output is configured (truthy)
    clock,           \* the wall clock read by time.time() and datetime.now()
    adjusted,        \* how often the wall clock was set back so far
    start_time,      \* local start_time of monitor()
    metrics,         \* the dict under construction in get_system_metrics
    tt_metrics,      \* what get_tt_smi_metrics returned
    metrics_history, \* self.metrics_history
    ticks,           \* calls of collect_metrics started so far
    sensor,          \* what the sensor read of the current tick met
    stop_cause,      \* why the polling loop was left
    elapsed,         \* time.time() - start_time as last computed on line 97
    save_calls,      \* calls of save_history so far
    saved_file,      \* content of the output file: Absent, or the list dumped
    \* ---- criteo_preprocessing.py ----
    spc,              \* position of the benchmark process
    PYBUDA_AVAILABLE, \* whether "import pybuda" succeeded
    device_type,      \* self.device_type (args.device)
    device,           \* self.device: NoDevice, or the TFDevice constructed
    iterations,       \* args.iterations
    data_size_mb,     \* size_map[args.size]
    report_wanted,    \* args.output is configured
    op,               \* index in SuiteOrder of the benchmark that is running
    batch_size,       \* local batch_size of the running benchmark
    cpu_time,         \* local cpu_time
    hw_time,          \* local hw_time
    warmups,          \* warm-up invocations made by the running benchmark
    run_results,      \* local results of run_full_suite
    results,          \* self.results
    accel_steps,      \* accelerator-path steps entered so far
    compile_failed,   \* operators whose pybuda.compile raised
    written,          \* result records json.dump has written so far
    report_file,      \* content of the report file
    draws,            \* random batches the running benchmark has generated
    recalled,         \* the caller has called run_full_suite a second time
    \* ---- operators of examples/ and tests/test_operators.py ----
    qpc,              \* "idle", "call" (arguments chosen) or "done"
    q_unit,           \* the unit that is called
    q_vocab,          \* vocab_size of the pipeline
    q_in,             \* the input tensor, a sequence of numbers
    q_out,            \* what the call gave: a tensor, an error, a test verdict
    \* ---- benchmark_throughput of examples/ ----
    xpc,              \* position inside benchmark_throughput
    script,           \* which example script runs
    num_iterations,   \* its num_iterations
    x_elems,          \* elements of one input tensor (product of input_shape)
    x_warmups,        \* warm-up invocations so far
    x_iter,           \* timed iterations so far
    x_draws,          \* random inputs generated so far
    x_timed_draws,    \* random inputs generated inside the timed interval
    x_timing,         \* the timed interval is open
    total_bytes,      \* local total_bytes
    x_throughput,     \* the value returned
    \* ---- the poller's run with interval 0.1 s, duration 0.5 s ----
    tpc,              \* position of the poller
    t_clock,          \* time.time(), in units of ScenarioUnit
    t_start,          \* start_time
    t_samples,        \* len(self.metrics_history)
    t_set_back,       \* the wall clock was set back during the run
    t_slow,           \* a tick or a sleep overran ScenarioFast
    t_file            \* a file was written

mvars == <<mpc, duration, interval, output, clock, adjusted, start_time, metrics,
           tt_metrics, metrics_history, ticks, sensor, stop_cause,
           elapsed, save_calls, saved_file>>

svars == <<spc, PYBUDA_AVAILABLE, device_type, device, iterations, data_size_mb,
           report_wanted, op, batch_size, cpu_time, hw_time, warmups, run_results,
           results, accel_steps, compile_failed, written, report_file, draws,
           recalled>>

ovars == <<qpc, q_unit, q_vocab, q_in, q_out>>

xvars == <<xpc, script, num_iterations, x_elems, x_warmups, x_iter, x_draws,
           x_timed_draws, x_timing, total_bytes, x_throughput>>

tvars == <<tpc, t_clock, t_start, t_samples, t_set_back, t_slow, t_file>>

vars == <<mvars, svars, ovars, xvars, tvars>>

----------------------------------------------------------------------------
\* Bounds of the model
MaxTicks    == 2   \* poll ticks explored
MaxClock    == 4   \* largest wall-clock reading
MaxDuration == 1   \* largest configured --duration
MaxAdjust   == 1   \* backward steps of the wall clock
MaxCallCost == 1   \* longest time a tt-smi call takes (at most its timeout)
MaxInterval == 1   \* largest configured --interval

----------------------------------------------------------------------------
\* Python values: None, numbers, strings (JSON scalars and object members)
Null   == [t |-> "null", v |-> 0]
Num(x) == [t |-> "num",  v |-> x]
Str    == [t |-> "str",  v |-> 0]

\* bool(x) of Python for these values ("abc" stands for any non-empty string)
Truthy(x) == \/ x.t = "str"
             \/ x.t = "num" /\ x.v # 0

\* dict.get(key): the value, or None when the key is missing
Get(d, k) == IF k \in DOMAIN d THEN d[k] ELSE Null

\* dict.update(other): other's members replace and extend d's
Update(d, other) ==
    [k \in DOMAIN d \cup DOMAIN other |-> IF k \in DOMAIN other THEN other[k] ELSE d[k]]

EmptyDict == [k \in {} |-> Null]

\* One-member and two-member dicts
D1(k, x)         == [j \in {k} |-> x]
D2(k1, x1, k2, x2) == [j \in {k1, k2} |-> IF j = k1 THEN x1 ELSE x2]

----------------------------------------------------------------------------
\* The environment of one tick

\* /sys/class/hwmon/hwmon0/temp1_input: absent, unreadable (PermissionError),
\* holding text that int() rejects, or holding a millidegree reading
SensorStates == {"absent", "unreadable", "nonint", "ok"}
SensorRaw    == {41000}

\* JSON objects tt-smi may print (its schema is vendor-defined)
Payloads == { EmptyDict,
              D1("power_w", Num(7)),
              D1("power_w", Str),
              D2("timestamp", Num(0), "temperature_c", Num(55)) }

\* What running ["tt-smi", "-d", "0", "--json"] can end in
SmiOutcomes == {"absent", "noexec", "timeout", "nonzero", "badjson", "scalar", "object"}

----------------------------------------------------------------------------
\* monitor.py

Absent == <<"absent">>          \* no file at the output path
File(content) == <<"file", content>>

\* The positions inside the try block of monitor(): lines 93-100
LoopPcs == {"collect", "tt_smi", "update", "print", "check", "sleep"}

\* except FileNotFoundError (line 61) is the only handler around the sensor read:
\* PermissionError from open() and ValueError from int() leave get_system_metrics
SensorRaises(s) == s \in {"unreadable", "nonint"}

\* metrics["temperature_c"] after lines 57-62
SensorTemperature(s, raw) == IF s = "ok" THEN Num(raw \div 1000) ELSE Null

\* except (TimeoutExpired, FileNotFoundError, JSONDecodeError) on line 47:
\* PermissionError (tt-smi present but not executable) is not among them
SmiRaises(o) == o = "noexec"

\* The value get_tt_smi_metrics returns: json.loads(stdout) when the exit code
\* is 0 (any JSON value, not only an object), {} otherwise
SmiResult(o, p) ==
    CASE o = "object" -> [kind |-> "dict",   val |-> p]
      [] o = "scalar" -> [kind |-> "scalar", val |-> EmptyDict]
      [] OTHER        -> [kind |-> "dict",   val |-> EmptyDict]

\* The locals of a tick that has returned hold nothing the next tick reads
NoResult == [kind |-> "dict", val |-> EmptyDict]

\* dict.update(x) raises TypeError for a JSON number, true, false or null
UpdateRaises(r) == r.kind # "dict"

\* f"{value:.1f}" raises ValueError for a str
FormatRaises(x) == Truthy(x) /\ x.t # "num"

\* print_metrics, lines 76-86: whether it raises for this sample
PrintRaises(m) == \/ FormatRaises(Get(m, "temperature_c"))
                  \/ FormatRaises(Get(m, "power_w"))

\* A duration test that needs more than the duration to have elapsed
DurationReachedStrict(d, e) == Truthy(d) /\ e > d.v

\* line 97: duration and (time.time() - start_time) >= duration
DurationReached(d, e) == Truthy(d) /\ e >= d.v

\* An exception other than KeyboardInterrupt leaves monitor() and main():
\* the interpreter prints the traceback and exits, line 141 is not reached
Crash == /\ mpc' = "crashed"
         /\ stop_cause' = "exception"

\* self.device when PyBuda is not available
NoDevice == "None"

\* The benchmark process is not running
IdleSuite ==
    /\ spc = "idle"
    /\ PYBUDA_AVAILABLE = FALSE
    /\ device_type = "silicon"
    /\ device = NoDevice
    /\ iterations = 0
    /\ data_size_mb = 0
    /\ report_wanted = FALSE
    /\ op = 1
    /\ batch_size = 0
    /\ cpu_time = 0
    /\ hw_time = 0
    /\ warmups = 0
    /\ run_results = <<>>
    /\ results = <<>>
    /\ accel_steps = {}
    /\ compile_failed = {}
    /\ written = 0
    /\ report_file = Absent
    /\ draws = 0
    /\ recalled = FALSE

\* No operator is being called
IdleOperators ==
    /\ qpc = "idle"
    /\ q_unit = "none"
    /\ q_vocab = 0
    /\ q_in = <<>>
    /\ q_out = [kind |-> "none", val |-> <<>>]

\* No example script is running
IdleExample ==
    /\ xpc = "idle"
    /\ script = "none"
    /\ num_iterations = 0
    /\ x_elems = 0
    /\ x_warmups = 0
    /\ x_iter = 0
    /\ x_draws = 0
    /\ x_timed_draws = 0
    /\ x_timing = FALSE
    /\ total_bytes = 0
    /\ x_throughput = [num |-> 0, den |-> 1]

\* The scenario run of the poller is not under way
IdleScenario ==
    /\ tpc = "idle"
    /\ t_clock = 0
    /\ t_start = 0
    /\ t_samples = 0
    /\ t_set_back = FALSE
    /\ t_slow = FALSE
    /\ t_file = FALSE

InitMonitor ==
    /\ IdleSuite
    /\ IdleOperators
    /\ IdleExample
    /\ IdleScenario
    /\ mpc = "main"
    /\ duration \in {Null} \cup {Num(d) : d \in 0..MaxDuration}
    /\ interval \in 0..MaxInterval
    /\ output \in BOOLEAN
    /\ clock = 0
    /\ adjusted = 0
    /\ start_time = 0
    /\ metrics = EmptyDict
    /\ tt_metrics = NoResult
    /\ metrics_history = <<>>
    /\ ticks = 0
    /\ sensor = "unread"
    /\ stop_cause = "none"
    /\ elapsed = 0
    /\ save_calls = 0
    /\ saved_file = Absent

\* monitor(), line 90: start_time = time.time(), then the try block is entered
MonitorStart ==
    /\ mpc = "main"
    /\ start_time' = clock
    /\ mpc' = "collect"
    /\ UNCHANGED <<duration, interval, output, clock, adjusted, metrics, tt_metrics,
                   metrics_history, ticks, sensor, stop_cause, elapsed, save_calls,
                   saved_file>>
    /\ UNCHANGED <<svars, ovars, xvars, tvars>>

\* collect_metrics -> get_system_metrics, lines 52-62: the timestamp and the
\* sensor read
GetSystemMetrics ==
    /\ mpc = "collect"
    /\ ticks < MaxTicks
    /\ \E s \in SensorStates, raw \in SensorRaw :
         /\ sensor' = s
         /\ ticks' = ticks + 1
         /\ IF SensorRaises(s)
              THEN /\ Crash
                   /\ metrics' = D1("timestamp", Num(clock))
              ELSE /\ metrics' = D2("timestamp", Num(clock),
                                    "temperature_c", SensorTemperature(s, raw))
                   /\ mpc' = "tt_smi"
                   /\ UNCHANGED stop_cause
    /\ UNCHANGED <<duration, interval, output, clock, adjusted, start_time, tt_metrics,
                   metrics_history, elapsed, save_calls, saved_file>>
    /\ UNCHANGED <<svars, ovars, xvars, tvars>>

\* get_tt_smi_metrics, lines 31-48; the call takes between 1 and MaxCallCost
GetTtSmiMetrics ==
    /\ mpc = "tt_smi"
    /\ \E o \in SmiOutcomes, p \in Payloads, cost \in 1..MaxCallCost :
         /\ clock + cost <= MaxClock
         /\ clock' = clock + cost
         /\ IF SmiRaises(o)
              THEN /\ Crash
                   /\ UNCHANGED tt_metrics
              ELSE /\ tt_metrics' = SmiResult(o, p)
                   /\ mpc' = "update"
                   /\ UNCHANGED stop_cause
    /\ UNCHANGED <<duration, interval, output, adjusted, start_time, metrics,
                   metrics_history, ticks, sensor, elapsed, save_calls, saved_file>>
    /\ UNCHANGED <<svars, ovars, xvars, tvars>>

\* get_system_metrics line 66 and collect_metrics line 73:
\* metrics.update(tt_metrics); self.metrics_history.append(metrics)
UpdateAndAppend ==
    /\ mpc = "update"
    /\ IF UpdateRaises(tt_metrics)
         THEN /\ Crash
              /\ UNCHANGED <<metrics, metrics_history>>
         ELSE /\ metrics' = Update(metrics, tt_metrics.val)
              /\ metrics_history' = Append(metrics_history, metrics')
              /\ mpc' = "print"
              /\ UNCHANGED stop_cause
    /\ tt_metrics' = NoResult
    /\ UNCHANGED <<duration, interval, output, clock, adjusted, start_time,
                   ticks, sensor, elapsed, save_calls, saved_file>>
    /\ UNCHANGED <<svars, ovars, xvars, tvars>>

\* print_metrics, lines 76-86; the tick's locals end with it
PrintMetrics ==
    /\ mpc = "print"
    /\ IF PrintRaises(metrics)
         THEN Crash
         ELSE /\ mpc' = "check"
              /\ UNCHANGED stop_cause
    /\ metrics' = EmptyDict
    /\ sensor' = "unread"
    /\ UNCHANGED <<duration, interval, output, clock, adjusted, start_time,
                   tt_metrics, metrics_history, ticks, elapsed, save_calls,
                   saved_file>>
    /\ UNCHANGED <<svars, ovars, xvars, tvars>>

\* lines 97-98: the duration test and the break
CheckDuration ==
    /\ mpc = "check"
    /\ elapsed' = clock - start_time
    /\ IF DurationReached(duration, elapsed')
         THEN /\ mpc' = "returned"
              /\ stop_cause' = "duration"
         ELSE /\ mpc' = "sleep"
              /\ UNCHANGED stop_cause
    /\ UNCHANGED <<duration, interval, output, clock, adjusted, start_time, metrics,
                   tt_metrics, metrics_history, ticks, sensor, save_calls, saved_file>>
    /\ UNCHANGED <<svars, ovars, xvars, tvars>>

\* line 100: time.sleep(self.interval)
Sleep ==
    /\ mpc = "sleep"
    /\ clock + interval <= MaxClock
    /\ clock' = clock + interval
    /\ mpc' = "collect"
    /\ UNCHANGED <<duration, interval, output, adjusted, start_time, metrics,
                   tt_metrics, metrics_history, ticks, sensor, stop_cause, elapsed,
                   save_calls, saved_file>>
    /\ UNCHANGED <<svars, ovars, xvars, tvars>>

\* monitor() without its except clause: the interrupt ends the process
KeyboardInterruptUncaught ==
    /\ mpc \in LoopPcs
    /\ mpc' = "crashed"
    /\ stop_cause' = "interrupt"
    /\ UNCHANGED <<duration, interval, output, clock, adjusted, start_time, metrics,
                   tt_metrics, metrics_history, ticks, sensor, elapsed, save_calls,
                   saved_file>>
    /\ UNCHANGED <<svars, ovars, xvars, tvars>>

\* lines 102-103: SIGINT raises KeyboardInterrupt at any point of the try block;
\* the handler prints and monitor() returns
KeyboardInterrupt ==
    /\ mpc \in LoopPcs
    /\ mpc' = "returned"
    /\ stop_cause' = "interrupt"
    /\ UNCHANGED <<duration, interval, output, clock, adjusted, start_time, metrics,
                   tt_metrics, metrics_history, ticks, sensor, elapsed, save_calls,
                   saved_file>>
    /\ UNCHANGED <<svars, ovars, xvars, tvars>>

\* main, lines 140-141: if args.output: monitor.save_history(args.output)
MainAfterMonitor ==
    /\ mpc = "returned"
    /\ mpc' = IF output THEN "save" ELSE "exit"
    /\ UNCHANGED <<duration, interval, output, clock, adjusted, start_time, metrics,
                   tt_metrics, metrics_history, ticks, sensor, stop_cause, elapsed,
                   save_calls, saved_file>>
    /\ UNCHANGED <<svars, ovars, xvars, tvars>>

\* save_history, lines 105-109
SaveHistory ==
    /\ mpc = "save"
    /\ save_calls' = save_calls + 1
    /\ saved_file' = File(metrics_history)
    /\ mpc' = "exit"
    /\ UNCHANGED <<duration, interval, output, clock, adjusted, start_time, metrics,
                   tt_metrics, metrics_history, ticks, sensor, stop_cause, elapsed>>
    /\ UNCHANGED <<svars, ovars, xvars, tvars>>

\* The wall clock is set back (NTP step, administrator, end of daylight saving
\* time: datetime.now() is naive local time) while the loop runs
ClockAdjust ==
    /\ mpc \in LoopPcs
    /\ adjusted < MaxAdjust
    /\ clock > 0
    /\ \E c \in 0..(clock - 1) : clock' = c
    /\ adjusted' = adjusted + 1
    /\ UNCHANGED <<mpc, duration, interval, output, start_time, metrics, tt_metrics,
                   metrics_history, ticks, sensor, stop_cause, elapsed, save_calls,
                   saved_file>>
    /\ UNCHANGED <<svars, ovars, xvars, tvars>>

NextMonitor ==
    \/ MonitorStart
    \/ GetSystemMetrics
    \/ GetTtSmiMetrics
    \/ UpdateAndAppend
    \/ PrintMetrics
    \/ CheckDuration
    \/ Sleep
    \/ KeyboardInterrupt
    \/ MainAfterMonitor
    \/ SaveHistory
    \/ ClockAdjust

SpecMonitor == InitMonitor /\ [][NextMonitor]_vars

----------------------------------------------------------------------------
\* criteo_preprocessing.py

MaxElapsed    == 2   \* longest measured time of one timing loop
MaxIterations == 1   \* largest --iterations

WarmupRuns   == 10        \* range(10) of the warm-up loops
BatchCap     == 1048576   \* 1024 * 1024 elements per batch
BytesPerItem == 4         \* float32 / int32
EmbeddingDim == 128
VocabBatch   == 32
SeqLen       == 256

RECURSIVE GCD(_, _)
GCD(a, b) == IF b = 0 THEN a ELSE GCD(b, a % b)

\* The float n / d, kept exact as a fraction in lowest terms (d > 0)
Ratio(n, d) == [num |-> n \div GCD(n, d), den |-> d \div GCD(n, d)]
One == Ratio(1, 1)          \* the literal 1.0

Min(a, b) == IF a <= b THEN a ELSE b

\* size_map of main
SizeMap == {10, 100, 1000}

\* The operators in the order run_full_suite benchmarks them
SuiteOrder == <<"Neg2Zero", "Logarithm", "Modulus", "VocabMap">>

\* The name field of each benchmark's BenchmarkResult
ResultName(o) ==
    CASE o = "Modulus"  -> "Modulus(mod=100)"
      [] o = "VocabMap" -> "VocabMap(vocab=10000,dim=128)"
      [] OTHER          -> o

\* __init__, lines 65-71: self.device
SuiteDevice(avail, dt) ==
    IF avail THEN (IF dt = "silicon" THEN "TFDevice(Silicon)" ELSE "TFDevice(Golden)")
             ELSE NoDevice

\* "if not PYBUDA_AVAILABLE or self.device is None" of lines 106, 175, 291
CpuOnly(avail, dev) == ~avail \/ dev = NoDevice

\* The Modulus record labelled with the configured device in every case
ModulusDeviceUnconditional(avail, dt) == dt

\* benchmark_modulus, line 248: the device label of the Modulus record
ModulusDevice(avail, dt) == IF ~avail THEN "CPU" ELSE dt

\* generate_synthetic_data line 80, benchmark_modulus line 234
Elements(size_mb) == (size_mb * 1024 * 1024) \div BytesPerItem

\* lines 97, 167, 236; benchmark_vocabmap is handed its batch_size
BatchSize(o, size_mb) ==
    IF o = "VocabMap" THEN VocabBatch ELSE Min(BatchCap, Elements(size_mb))

\* The bytes a benchmark counts as processed: lines 107, 244, 287-289
TotalBytes(o, batch, iters) ==
    IF o = "VocabMap"
      THEN (batch * SeqLen * BytesPerItem
            + batch * SeqLen * EmbeddingDim * BytesPerItem) * iters
      ELSE batch * BytesPerItem * iters

\* data_size_mb of the record: the argument, or total_bytes / (1024 * 1024)
RecordSize(o, size_mb, batch, iters) ==
    IF o = "VocabMap" THEN Ratio(TotalBytes(o, batch, iters), 1024 * 1024)
                      ELSE Ratio(size_mb, 1)

\* A throughput of the opposite sign
ThroughputNegated(bytes, seconds) == Ratio(0 - bytes, seconds)

\* (bytes / 1e9) / seconds, kept in bytes per second: the fraction stands for
\* num / (den * 10^9) GB/s
Throughput(bytes, seconds) == Ratio(bytes, seconds)

\* BenchmarkResult(...) as the benchmarks construct it
BenchmarkResult(o, dev, size_mb, batch, iters, seconds, speedup) ==
    [name           |-> ResultName(o),
     device         |-> dev,
     data_size_mb   |-> RecordSize(o, size_mb, batch, iters),
     iterations     |-> iters,
     total_time_s   |-> seconds,
     throughput_gbs |-> Throughput(TotalBytes(o, batch, iters), seconds),
     speedup_vs_cpu |-> speedup]

\* The record of a benchmark that returns after its CPU loop:
\* lines 108-116, 177-185, 246-254, 293-301
CpuRecord(o, avail, dt, size_mb, batch, iters, seconds) ==
    BenchmarkResult(o, IF o = "Modulus" THEN ModulusDevice(avail, dt) ELSE "CPU",
                    size_mb, batch, iters, seconds, One)

\* The record of the hardware path: lines 141-152, 209-220, 333-344
HwRecord(o, dt, size_mb, batch, iters, cpu_s, hw_s) ==
    BenchmarkResult(o, dt, size_mb, batch, iters, hw_s, Ratio(cpu_s, hw_s))

\* The report file: what save_results leaves at output_path
Report(dt, recs, n, whole) ==
    <<"file", [device |-> dt, results |-> SubSeq(recs, 1, n), complete |-> whole]>>
\* A complete report an earlier run left at the output path
OldReport == Report("golden", <<>>, 0, TRUE)

CurrentOp == SuiteOrder[op]

\* The monitor process is not running
IdleMonitor ==
    /\ mpc = "idle"
    /\ duration = Null
    /\ interval = 0
    /\ output = FALSE
    /\ clock = 0
    /\ adjusted = 0
    /\ start_time = 0
    /\ metrics = EmptyDict
    /\ tt_metrics = NoResult
    /\ metrics_history = <<>>
    /\ ticks = 0
    /\ sensor = "unread"
    /\ stop_cause = "none"
    /\ elapsed = 0
    /\ save_calls = 0
    /\ saved_file = Absent

InitSuite ==
    /\ IdleMonitor
    /\ IdleOperators
    /\ IdleExample
    /\ IdleScenario
    /\ draws = 0
    /\ recalled = FALSE
    /\ spc = "main"
    /\ PYBUDA_AVAILABLE \in BOOLEAN
    /\ device_type \in {"silicon", "golden", "cpu"}
    /\ device = NoDevice
    /\ iterations \in 0..MaxIterations
    /\ data_size_mb \in SizeMap
    /\ report_wanted \in BOOLEAN
    /\ op = 1
    /\ batch_size = 0
    /\ cpu_time = 0
    /\ hw_time = 0
    /\ warmups = 0
    /\ run_results = <<>>
    /\ results = <<>>
    /\ accel_steps = {}
    /\ compile_failed = {}
    /\ written = 0
    /\ report_file \in {Absent, OldReport}

\* main line 443 -> __init__, lines 60-71
SuiteInit ==
    /\ spc = "main"
    /\ results' = <<>>
    /\ device' = SuiteDevice(PYBUDA_AVAILABLE, device_type)
    /\ accel_steps' = IF device' # NoDevice THEN accel_steps \cup {"device"}
                                            ELSE accel_steps
    /\ spc' = "suite"
    /\ UNCHANGED <<PYBUDA_AVAILABLE, device_type, iterations, data_size_mb,
                   report_wanted, op, batch_size, cpu_time, hw_time, warmups,
                   run_results, compile_failed, written, report_file>>
    /\ UNCHANGED <<draws, recalled>>
    /\ UNCHANGED <<mvars, ovars, xvars, tvars>>

\* run_full_suite, lines 351-360: results = []
RunFullSuite ==
    /\ spc = "suite"
    /\ run_results' = <<>>
    /\ op' = 1
    /\ spc' = "generate"
    /\ UNCHANGED <<PYBUDA_AVAILABLE, device_type, device, iterations, data_size_mb,
                   report_wanted, batch_size, cpu_time, hw_time, warmups, results,
                   accel_steps, compile_failed, written, report_file>>
    /\ UNCHANGED <<draws, recalled>>
    /\ UNCHANGED <<mvars, ovars, xvars, tvars>>

\* The input batch of the running benchmark: lines 96-97, 166-167, 234-236, 277.
\* It is the one call of torch.randn / torch.randint a benchmark makes: every
\* loop after it works on data[:batch_size], respectively indices
Generate ==
    /\ spc = "generate"
    /\ batch_size' = BatchSize(CurrentOp, data_size_mb)
    /\ draws' = draws + 1
    /\ spc' = "cpu_timing"
    /\ UNCHANGED <<PYBUDA_AVAILABLE, device_type, device, iterations, data_size_mb,
                   report_wanted, op, cpu_time, hw_time, warmups, run_results, results,
                   accel_steps, compile_failed, written, report_file>>
    /\ UNCHANGED recalled
    /\ UNCHANGED <<mvars, ovars, xvars, tvars>>

\* The CPU baseline loop: lines 101-104, 170-173, 239-242, 281-284
CpuTiming ==
    /\ spc = "cpu_timing"
    /\ \E t \in 1..MaxElapsed : cpu_time' = t
    /\ spc' = "branch"
    /\ UNCHANGED <<PYBUDA_AVAILABLE, device_type, device, iterations, data_size_mb,
                   report_wanted, op, batch_size, hw_time, warmups, run_results,
                   results, accel_steps, compile_failed, written, report_file>>
    /\ UNCHANGED <<draws, recalled>>
    /\ UNCHANGED <<mvars, ovars, xvars, tvars>>

\* A benchmark whose return contributes two records to the run
ReturnedTwice(rec) ==
    /\ run_results' = run_results \o <<rec, rec>>
    /\ batch_size' = 0
    /\ draws' = 0
    /\ cpu_time' = 0
    /\ hw_time' = 0
    /\ warmups' = 0
    /\ IF op < Len(SuiteOrder)
         THEN /\ op' = op + 1
              /\ spc' = "generate"
         ELSE /\ op' = op
              /\ spc' = "extend"

\* The benchmark has returned its record: results.append(...) of lines 363-374,
\* and the next benchmark, or self.results.extend(results) of line 376
Returned(rec) ==
    /\ run_results' = Append(run_results, rec)
    /\ batch_size' = 0
    /\ draws' = 0
    /\ cpu_time' = 0
    /\ hw_time' = 0
    /\ warmups' = 0
    /\ IF op < Len(SuiteOrder)
         THEN /\ op' = op + 1
              /\ spc' = "generate"
         ELSE /\ op' = op
              /\ spc' = "extend"

\* The CPU-only return: lines 106-116, 175-185, 291-301; benchmark_modulus has
\* no hardware path and always returns here, lines 244-258
CpuResult ==
    /\ spc = "branch"
    /\ CurrentOp = "Modulus" \/ CpuOnly(PYBUDA_AVAILABLE, device)
    /\ Returned(CpuRecord(CurrentOp, PYBUDA_AVAILABLE, device_type, data_size_mb,
                          batch_size, iterations, cpu_time))
    /\ UNCHANGED <<PYBUDA_AVAILABLE, device_type, device, iterations, data_size_mb,
                   report_wanted, results, accel_steps, compile_failed, written,
                   report_file>>
    /\ UNCHANGED recalled
    /\ UNCHANGED <<mvars, ovars, xvars, tvars>>

\* pybuda.compile, lines 123-128, 192-197, 312-321.  No try surrounds it, nor
\* its callers up to main: a compilation error leaves run_full_suite and main
HwCompile ==
    /\ spc = "branch"
    /\ CurrentOp # "Modulus"
    /\ ~CpuOnly(PYBUDA_AVAILABLE, device)
    /\ accel_steps' = accel_steps \cup {"compile"}
    /\ \E ok \in BOOLEAN :
         IF ok THEN /\ spc' = "warmup"
                    /\ warmups' = 0
                    /\ UNCHANGED compile_failed
               ELSE /\ spc' = "aborted"
                    /\ compile_failed' = compile_failed \cup {CurrentOp}
                    /\ UNCHANGED warmups
    /\ UNCHANGED <<PYBUDA_AVAILABLE, device_type, device, iterations, data_size_mb,
                   report_wanted, op, batch_size, cpu_time, hw_time, run_results,
                   results, written, report_file>>
    /\ UNCHANGED <<draws, recalled>>
    /\ UNCHANGED <<mvars, ovars, xvars, tvars>>

\* One invocation of the warm-up loops: lines 131-132, 200-201, 324-325
HwWarmup ==
    /\ spc = "warmup"
    /\ warmups < WarmupRuns
    /\ warmups' = warmups + 1
    /\ accel_steps' = accel_steps \cup {"warmup"}
    /\ UNCHANGED <<spc, PYBUDA_AVAILABLE, device_type, device, iterations,
                   data_size_mb, report_wanted, op, batch_size, cpu_time, hw_time,
                   run_results, results, compile_failed, written, report_file>>
    /\ UNCHANGED <<draws, recalled>>
    /\ UNCHANGED <<mvars, ovars, xvars, tvars>>

\* A hardware timing loop that may start before the warm-up loop has finished
HwTimingEarly ==
    /\ spc = "warmup"
    /\ \E t \in 1..MaxElapsed : hw_time' = t
    /\ accel_steps' = accel_steps \cup {"timing"}
    /\ spc' = "hw_result"
    /\ UNCHANGED <<PYBUDA_AVAILABLE, device_type, device, iterations, data_size_mb,
                   report_wanted, op, batch_size, cpu_time, warmups, run_results,
                   results, compile_failed, written, report_file>>
    /\ UNCHANGED <<draws, recalled>>
    /\ UNCHANGED <<mvars, ovars, xvars, tvars>>

\* The hardware timing loop: lines 136-139, 204-207, 328-331
HwTiming ==
    /\ spc = "warmup"
    /\ warmups = WarmupRuns
    /\ \E t \in 1..MaxElapsed : hw_time' = t
    /\ accel_steps' = accel_steps \cup {"timing"}
    /\ spc' = "hw_result"
    /\ UNCHANGED <<PYBUDA_AVAILABLE, device_type, device, iterations, data_size_mb,
                   report_wanted, op, batch_size, cpu_time, warmups, run_results,
                   results, compile_failed, written, report_file>>
    /\ UNCHANGED <<draws, recalled>>
    /\ UNCHANGED <<mvars, ovars, xvars, tvars>>

\* The hardware record: lines 141-157, 209-225, 333-349
HwResult ==
    /\ spc = "hw_result"
    /\ Returned(HwRecord(CurrentOp, device_type, data_size_mb, batch_size, iterations,
                         cpu_time, hw_time))
    /\ UNCHANGED <<PYBUDA_AVAILABLE, device_type, device, iterations, data_size_mb,
                   report_wanted, results, accel_steps, compile_failed, written,
                   report_file>>
    /\ UNCHANGED recalled
    /\ UNCHANGED <<mvars, ovars, xvars, tvars>>

\* A run_full_suite that assigns its records to self.results
SuiteExtendReplace ==
    /\ spc = "extend"
    /\ results' = run_results
    /\ run_results' = <<>>
    /\ spc' = "summary"
    /\ UNCHANGED <<PYBUDA_AVAILABLE, device_type, device, iterations, data_size_mb,
                   report_wanted, op, batch_size, cpu_time, hw_time, warmups,
                   accel_steps, compile_failed, written, report_file>>
    /\ UNCHANGED <<draws, recalled>>
    /\ UNCHANGED <<mvars, ovars, xvars, tvars>>

\* run_full_suite, lines 376-377
SuiteExtend ==
    /\ spc = "extend"
    /\ results' = results \o run_results
    /\ run_results' = <<>>
    /\ spc' = "summary"
    /\ UNCHANGED <<PYBUDA_AVAILABLE, device_type, device, iterations, data_size_mb,
                   report_wanted, op, batch_size, cpu_time, hw_time, warmups,
                   accel_steps, compile_failed, written, report_file>>
    /\ UNCHANGED <<draws, recalled>>
    /\ UNCHANGED <<mvars, ovars, xvars, tvars>>

\* main, lines 445-449: print_summary, then "if args.output"
PrintSummary ==
    /\ spc = "summary"
    /\ spc' = IF report_wanted THEN "save" ELSE "done"
    /\ UNCHANGED <<PYBUDA_AVAILABLE, device_type, device, iterations, data_size_mb,
                   report_wanted, op, batch_size, cpu_time, hw_time, warmups,
                   run_results, results, accel_steps, compile_failed, written,
                   report_file>>
    /\ UNCHANGED <<draws, recalled>>
    /\ UNCHANGED <<mvars, ovars, xvars, tvars>>

\* save_results, lines 395-401: open(output_path, 'w') truncates the file, or
\* raises (unwritable path) and leaves it alone
SaveOpen ==
    /\ spc = "save"
    /\ \E ok \in BOOLEAN :
         IF ok THEN /\ report_file' = Report(device_type, results, 0, FALSE)
                    /\ spc' = "dump"
               ELSE /\ spc' = "save_failed"
                    /\ UNCHANGED report_file
    /\ written' = 0
    /\ UNCHANGED <<PYBUDA_AVAILABLE, device_type, device, iterations, data_size_mb,
                   report_wanted, op, batch_size, cpu_time, hw_time, warmups,
                   run_results, results, accel_steps, compile_failed>>
    /\ UNCHANGED <<draws, recalled>>
    /\ UNCHANGED <<mvars, ovars, xvars, tvars>>

\* save_results, lines 402-404: json.dump writes the report piece by piece into
\* the open file; an I/O error (disk full, ...) raises out of save_results with
\* the pieces written so far left in the file
SaveDump ==
    /\ spc = "dump"
    /\ \/ /\ written' = Len(results)
          /\ report_file' = Report(device_type, results, Len(results), TRUE)
          /\ spc' = "done"
       \/ \E n \in 0..(Len(results) - 1) :
            /\ written' = n
            /\ report_file' = Report(device_type, results, n, FALSE)
            /\ spc' = "save_failed"
    /\ UNCHANGED <<PYBUDA_AVAILABLE, device_type, device, iterations, data_size_mb,
                   report_wanted, op, batch_size, cpu_time, hw_time, warmups,
                   run_results, results, accel_steps, compile_failed>>
    /\ UNCHANGED <<draws, recalled>>
    /\ UNCHANGED <<mvars, ovars, xvars, tvars>>

NextSuite ==
    \/ SuiteInit
    \/ RunFullSuite
    \/ Generate
    \/ CpuTiming
    \/ CpuResult
    \/ HwCompile
    \/ HwWarmup
    \/ HwTiming
    \/ HwResult
    \/ SuiteExtend
    \/ PrintSummary
    \/ SaveOpen
    \/ SaveDump

SpecSuite == InitSuite /\ [][NextSuite]_vars

----------------------------------------------------------------------------
\* A caller that holds one PIPERBenchmarkSuite and calls run_full_suite more
\* than once: the suite may already hold the four records of an earlier call
\* that succeeded, and a call that fails with an exception is called again.

\* What a call of run_full_suite that succeeded has appended, every loop of it
\* having taken t
EarlierGroup(avail, dt, size_mb, iters, t) ==
    [k \in 1..Len(SuiteOrder) |->
        IF SuiteOrder[k] = "Modulus" \/ CpuOnly(avail, SuiteDevice(avail, dt))
        THEN CpuRecord(SuiteOrder[k], avail, dt, size_mb,
                       BatchSize(SuiteOrder[k], size_mb), iters, t)
        ELSE HwRecord(SuiteOrder[k], dt, size_mb,
                      BatchSize(SuiteOrder[k], size_mb), iters, t, t)]

\* The suite is constructed (silicon device requested, report to a new file)
\* and is about to be called
InitSuiteRuns ==
    /\ IdleMonitor
    /\ IdleOperators
    /\ IdleExample
    /\ IdleScenario
    /\ draws = 0
    /\ recalled = FALSE
    /\ spc = "suite"
    /\ PYBUDA_AVAILABLE \in BOOLEAN
    /\ device_type = "silicon"
    /\ device = SuiteDevice(PYBUDA_AVAILABLE, device_type)
    /\ iterations \in 0..MaxIterations
    /\ data_size_mb \in SizeMap
    /\ report_wanted = TRUE
    /\ op = 1
    /\ batch_size = 0
    /\ cpu_time = 0
    /\ hw_time = 0
    /\ warmups = 0
    /\ run_results = <<>>
    /\ results \in {<<>>} \cup
                   {EarlierGroup(PYBUDA_AVAILABLE, device_type, data_size_mb,
                                 iterations, t) : t \in 1..MaxElapsed}
    /\ accel_steps = IF device # NoDevice THEN {"device"} ELSE {}
    /\ compile_failed = {}
    /\ written = 0
    /\ report_file = Absent

\* The caller has caught the exception of a failed call and calls
\* run_full_suite again, lines 351-360: the locals of the failed call are gone
CallAgain ==
    /\ spc = "aborted"
    /\ recalled' = TRUE
    /\ run_results' = <<>>
    /\ op' = 1
    /\ batch_size' = 0
    /\ draws' = 0
    /\ cpu_time' = 0
    /\ hw_time' = 0
    /\ warmups' = 0
    /\ spc' = "generate"
    /\ UNCHANGED <<PYBUDA_AVAILABLE, device_type, device, iterations, data_size_mb,
                   report_wanted, results, accel_steps, compile_failed, written,
                   report_file>>
    /\ UNCHANGED <<mvars, ovars, xvars, tvars>>

NextSuiteRuns ==
    \/ RunFullSuite
    \/ Generate
    \/ CpuTiming
    \/ CpuResult
    \/ HwCompile
    \/ HwWarmup
    \/ HwTiming
    \/ HwResult
    \/ SuiteExtend
    \/ PrintSummary
    \/ SaveOpen
    \/ SaveDump
    \/ CallAgain

SpecSuiteRuns == InitSuiteRuns /\ [][NextSuiteRuns]_vars

----------------------------------------------------------------------------
\* benchmark_throughput of examples/neg2zero_pipeline.py and of
\* examples/vocab_mapper.py, as the main of each script calls it.

MaxExampleIterations == 2
MaxElems == 2

ExampleWarmupRuns == 10
ExampleEmbeddingDim == 128

Scripts == {"neg2zero_pipeline", "vocab_mapper"}

\* The bytes one timed iteration adds to total_bytes: the input, and for the
\* vocabulary lookup the output embeddings as well
ExampleBytes(sc, elems) ==
    IF sc = "vocab_mapper"
      THEN elems * BytesPerItem + elems * ExampleEmbeddingDim * BytesPerItem
      ELSE elems * BytesPerItem

InitExample ==
    /\ IdleMonitor
    /\ IdleSuite
    /\ IdleOperators
    /\ IdleScenario
    /\ xpc = "compile"
    /\ script \in Scripts
    /\ num_iterations \in 0..MaxExampleIterations
    /\ x_elems \in 1..MaxElems
    /\ x_warmups = 0
    /\ x_iter = 0
    /\ x_draws = 0
    /\ x_timed_draws = 0
    /\ x_timing = FALSE
    /\ total_bytes = 0
    /\ x_throughput = [num |-> 0, den |-> 1]

\* pybuda.compile with a random sample input; a compilation error leaves
\* benchmark_throughput and main
ExampleCompile ==
    /\ xpc = "compile"
    /\ x_draws' = x_draws + 1
    /\ \E ok \in BOOLEAN : xpc' = IF ok THEN "warmup" ELSE "aborted"
    /\ UNCHANGED <<script, num_iterations, x_elems, x_warmups, x_iter,
                   x_timed_draws, x_timing, total_bytes, x_throughput>>
    /\ UNCHANGED <<mvars, svars, ovars, tvars>>

\* One pass of "for _ in range(10)": a random input, one call, result dropped
ExampleWarmup ==
    /\ xpc = "warmup"
    /\ x_warmups < ExampleWarmupRuns
    /\ x_warmups' = x_warmups + 1
    /\ x_draws' = x_draws + 1
    /\ UNCHANGED <<xpc, script, num_iterations, x_elems, x_iter, x_timed_draws,
                   x_timing, total_bytes, x_throughput>>
    /\ UNCHANGED <<mvars, svars, ovars, tvars>>

\* total_bytes = 0; start_time = time.perf_counter()
ExampleStartTiming ==
    /\ xpc = "warmup"
    /\ x_warmups = ExampleWarmupRuns
    /\ total_bytes' = 0
    /\ x_timing' = TRUE
    /\ xpc' = "timing"
    /\ UNCHANGED <<script, num_iterations, x_elems, x_warmups, x_iter, x_draws,
                   x_timed_draws, x_throughput>>
    /\ UNCHANGED <<mvars, svars, ovars, tvars>>

\* A timed pass that calls the operator on the input of the pass before
ExampleIterationReusing ==
    /\ xpc = "timing"
    /\ x_iter < num_iterations
    /\ x_iter' = x_iter + 1
    /\ total_bytes' = total_bytes + ExampleBytes(script, x_elems)
    /\ UNCHANGED <<xpc, script, num_iterations, x_elems, x_warmups, x_timing,
                   x_draws, x_timed_draws, x_throughput>>
    /\ UNCHANGED <<mvars, svars, ovars, tvars>>

\* One pass of "for _ in range(num_iterations)": a random input is generated,
\* the operator is called on it, its bytes are counted
ExampleIteration ==
    /\ xpc = "timing"
    /\ x_iter < num_iterations
    /\ x_iter' = x_iter + 1
    /\ x_draws' = x_draws + 1
    /\ x_timed_draws' = x_timed_draws + 1
    /\ total_bytes' = total_bytes + ExampleBytes(script, x_elems)
    /\ UNCHANGED <<xpc, script, num_iterations, x_elems, x_warmups, x_timing,
                   x_throughput>>
    /\ UNCHANGED <<mvars, svars, ovars, tvars>>

\* elapsed = time.perf_counter() - start_time; the throughput is returned
ExampleFinish ==
    /\ xpc = "timing"
    /\ x_iter = num_iterations
    /\ x_timing' = FALSE
    /\ \E e \in 1..MaxElapsed : x_throughput' = Throughput(total_bytes, e)
    /\ xpc' = "done"
    /\ UNCHANGED <<script, num_iterations, x_elems, x_warmups, x_iter, x_draws,
                   x_timed_draws, total_bytes>>
    /\ UNCHANGED <<mvars, svars, ovars, tvars>>

NextExample ==
    \/ ExampleCompile
    \/ ExampleWarmup
    \/ ExampleStartTiming
    \/ ExampleIteration
    \/ ExampleFinish

\* Every benchmark of the repository: the suite, or one of the example scripts
InitBenchmarks == InitSuite \/ InitExample

NextBenchmarks == NextSuite \/ NextExample

SpecBenchmarks == InitBenchmarks /\ [][NextBenchmarks]_vars

----------------------------------------------------------------------------
\* The operators of PIPER/examples and the unit test of PIPER/tests.
\* Tensors are sequences of integers. A table row of nn.Embedding is named by
\* its index.

MaxLen == 2
MaxVal == 2
MaxVocab == 2

Units == {"Neg2ZeroPipeline", "VocabMapperPipeline", "VocabGenMapPipeline",
          "test_neg2zero"}

Tensors == UNION {[1..n -> (0 - MaxVal)..MaxVal] : n \in 1..MaxLen}

Abs(x) == IF x < 0 THEN 0 - x ELSE x

\* torch.clamp(x, min=lo) on one element
ClampMin(x, lo) == IF x < lo THEN lo ELSE x

\* torch.clamp(x, min=0.0) on a tensor
Clamp(x) == [i \in 1..Len(x) |-> ClampMin(x[i], 0)]

\* Neg2ZeroPipeline.forward
Neg2Zero(x) == [kind |-> "tensor", val |-> Clamp(x)]

\* nn.Embedding(vocab_size, embedding_dim) called on indices: the rows of the
\* table, and IndexError when an index is outside the table
EmbeddingWrapping(vocab_size, indices) ==
    [kind |-> "tensor",
     val |-> [i \in 1..Len(indices) |-> indices[i] % vocab_size]]

Embedding(vocab_size, indices) ==
    IF \A i \in 1..Len(indices) : indices[i] \in 0..(vocab_size - 1)
    THEN [kind |-> "tensor", val |-> indices]
    ELSE [kind |-> "IndexError", val |-> <<>>]

\* VocabMapperPipeline.forward
VocabMapper(vocab_size, indices) == Embedding(vocab_size, indices)

\* Tensor.long() after abs(): the integer part. A raw feature is counted in
\* halves, so that a feature need not be a whole number
Long(halves) == halves \div 2

\* raw_features.abs().long() % self.vocab_size
Hash(vocab_size, raw_features) ==
    [i \in 1..Len(raw_features) |-> Long(Abs(raw_features[i])) % vocab_size]

\* VocabGenMapPipeline.forward
VocabGenMap(vocab_size, raw_features) ==
    VocabMapper(vocab_size, Hash(vocab_size, raw_features))

\* The vectors of test_neg2zero; the last element of expected is written ".0"
TestInput == <<-2, -1, 0, 1, 2>>

TestExpected == <<0, 0, 0, 1, 0>>

\* torch.allclose(a, b): |a - b| <= atol + rtol * |b| on every element, with
\* atol = 1e-8 and rtol = 1e-5; both sides are multiplied by 10^8
AllClose(a, b) ==
    /\ Len(a) = Len(b)
    /\ \A i \in 1..Len(a) : Abs(a[i] - b[i]) * 100000000 <= 1 + 1000 * Abs(b[i])

\* test_neg2zero: result = torch.clamp(input_data, min=0.0);
\* assert torch.allclose(result, expected)
TestNeg2ZeroOutcome ==
    IF AllClose(Clamp(TestInput), TestExpected)
    THEN [kind |-> "passed", val |-> Clamp(TestInput)]
    ELSE [kind |-> "AssertionError", val |-> Clamp(TestInput)]

InitOperators ==
    /\ IdleMonitor
    /\ IdleSuite
    /\ IdleExample
    /\ IdleScenario
    /\ IdleOperators

\* A caller builds a pipeline and a tensor
CallPipeline ==
    /\ qpc = "idle"
    /\ \E u \in Units \ {"test_neg2zero"}, x \in Tensors :
         /\ q_unit' = u
         /\ q_in' = x
    /\ \E v \in 1..MaxVocab :
         q_vocab' = IF q_unit' = "Neg2ZeroPipeline" THEN 0 ELSE v
    /\ qpc' = "call"
    /\ UNCHANGED q_out
    /\ UNCHANGED <<mvars, svars, xvars, tvars>>

\* pytest starts test_neg2zero, which builds its own input
CallTest ==
    /\ qpc = "idle"
    /\ q_unit' = "test_neg2zero"
    /\ q_in' = TestInput
    /\ qpc' = "call"
    /\ UNCHANGED <<q_vocab, q_out>>
    /\ UNCHANGED <<mvars, svars, xvars, tvars>>

Neg2ZeroForward ==
    /\ qpc = "call"
    /\ q_unit = "Neg2ZeroPipeline"
    /\ q_out' = Neg2Zero(q_in)
    /\ qpc' = "done"
    /\ UNCHANGED <<q_unit, q_vocab, q_in>>
    /\ UNCHANGED <<mvars, svars, xvars, tvars>>

VocabMapperForward ==
    /\ qpc = "call"
    /\ q_unit = "VocabMapperPipeline"
    /\ q_out' = VocabMapper(q_vocab, q_in)
    /\ qpc' = "done"
    /\ UNCHANGED <<q_unit, q_vocab, q_in>>
    /\ UNCHANGED <<mvars, svars, xvars, tvars>>

VocabGenMapForward ==
    /\ qpc = "call"
    /\ q_unit = "VocabGenMapPipeline"
    /\ q_out' = VocabGenMap(q_vocab, q_in)
    /\ qpc' = "done"
    /\ UNCHANGED <<q_unit, q_vocab, q_in>>
    /\ UNCHANGED <<mvars, svars, xvars, tvars>>

TestNeg2Zero ==
    /\ qpc = "call"
    /\ q_unit = "test_neg2zero"
    /\ q_out' = TestNeg2ZeroOutcome
    /\ qpc' = "done"
    /\ UNCHANGED <<q_unit, q_vocab, q_in>>
    /\ UNCHANGED <<mvars, svars, xvars, tvars>>

NextOperators ==
    \/ CallPipeline
    \/ CallTest
    \/ Neg2ZeroForward
    \/ VocabMapperForward
    \/ VocabGenMapForward
    \/ TestNeg2Zero

SpecOperators == InitOperators /\ [][NextOperators]_vars

----------------------------------------------------------------------------
\* One run of the poller started as "monitor.py --interval 0.1 --duration 0.5"
\* (no --output), with time.time() counted in units of 0.05 s. Only the clock,
\* the length of the history and the file system matter here; what a sample
\* holds is the subject of SpecMonitor.

\* The arguments of the run, in clock units, and the longest tick and the
\* longest overrun of a sleep (in clock units) that count as fast
Scenario == [interval |-> 2, duration |-> 10, output |-> Null, fast |-> 1]

MaxTickCost == 10
MaxOversleep == 1
MaxSetBack == 1

ScenarioLoopPcs == {"tick", "check", "sleep"}

InitScenario ==
    /\ IdleMonitor
    /\ IdleSuite
    /\ IdleOperators
    /\ IdleExample
    /\ tpc = "main"
    /\ t_clock = 0
    /\ t_start = 0
    /\ t_samples = 0
    /\ t_set_back = FALSE
    /\ t_slow = FALSE
    /\ t_file = FALSE

\* main, lines 137-138, and monitor, line 90: start_time = time.time()
ScenarioStart ==
    /\ tpc = "main"
    /\ t_start' = t_clock
    /\ tpc' = "tick"
    /\ UNCHANGED <<t_clock, t_samples, t_set_back, t_slow, t_file>>
    /\ UNCHANGED <<mvars, svars, ovars, xvars>>

\* lines 93-94: collect_metrics appends one sample and print_metrics prints it.
\* The sensor read and the tt-smi call (timeout 5 s) take some time
ScenarioTick ==
    /\ tpc = "tick"
    /\ \E cost \in 0..MaxTickCost :
         /\ t_clock' = t_clock + cost
         /\ t_slow' = (t_slow \/ cost > Scenario.fast)
    /\ t_samples' = t_samples + 1
    /\ tpc' = "check"
    /\ UNCHANGED <<t_start, t_set_back, t_file>>
    /\ UNCHANGED <<mvars, svars, ovars, xvars>>

\* An exception that get_system_metrics or print_metrics does not catch
\* leaves monitor() and main() before the sample is appended
ScenarioTickRaises ==
    /\ tpc = "tick"
    /\ tpc' = "crashed"
    /\ UNCHANGED <<t_clock, t_start, t_samples, t_set_back, t_slow, t_file>>
    /\ UNCHANGED <<mvars, svars, ovars, xvars>>

\* lines 97-98: the duration test
ScenarioCheck ==
    /\ tpc = "check"
    /\ tpc' = IF DurationReached(Num(Scenario.duration), t_clock - t_start)
              THEN "returned" ELSE "sleep"
    /\ UNCHANGED <<t_clock, t_start, t_samples, t_set_back, t_slow, t_file>>
    /\ UNCHANGED <<mvars, svars, ovars, xvars>>

\* line 100: time.sleep(self.interval) suspends for the interval or longer
ScenarioSleep ==
    /\ tpc = "sleep"
    /\ \E over \in 0..MaxOversleep :
         /\ t_clock' = t_clock + Scenario.interval + over
         /\ t_slow' = (t_slow \/ over > Scenario.fast)
    /\ tpc' = "tick"
    /\ UNCHANGED <<t_start, t_samples, t_set_back, t_file>>
    /\ UNCHANGED <<mvars, svars, ovars, xvars>>

\* lines 102-103: Ctrl-C inside the try block
ScenarioInterrupt ==
    /\ tpc \in ScenarioLoopPcs
    /\ tpc' = "interrupted"
    /\ UNCHANGED <<t_clock, t_start, t_samples, t_set_back, t_slow, t_file>>
    /\ UNCHANGED <<mvars, svars, ovars, xvars>>

\* main, lines 140-141: save_history is called if args.output is truthy
ScenarioMain ==
    /\ tpc \in {"returned", "interrupted"}
    /\ tpc' = IF tpc = "returned" THEN "exit" ELSE "exit_interrupted"
    /\ t_file' = (t_file \/ Truthy(Scenario.output))
    /\ UNCHANGED <<t_clock, t_start, t_samples, t_set_back, t_slow>>
    /\ UNCHANGED <<mvars, svars, ovars, xvars>>

\* The wall clock is set back once while the loop runs
ScenarioSetBack ==
    /\ tpc \in ScenarioLoopPcs
    /\ ~t_set_back
    /\ \E by \in 1..MaxSetBack : t_clock' = t_clock - by
    /\ t_set_back' = TRUE
    /\ UNCHANGED <<tpc, t_start, t_samples, t_slow, t_file>>
    /\ UNCHANGED <<mvars, svars, ovars, xvars>>

NextScenario ==
    \/ ScenarioStart
    \/ ScenarioTick
    \/ ScenarioTickRaises
    \/ ScenarioCheck
    \/ ScenarioSleep
    \/ ScenarioInterrupt
    \/ ScenarioMain
    \/ ScenarioSetBack

SpecScenario == InitScenario /\ [][NextScenario]_vars

----------------------------------------------------------------------------
\* Properties of the telemetry poller (SpecMonitor)

LastSample == metrics_history[Len(metrics_history)]

\* C1: every poll tick appends exactly one sample, whatever the sensor read
\* and the tt-smi call meet: outside a tick in progress (and an interrupted
\* one) the history is as long as the number of ticks started, and no
\* exception ends the loop.
C1_EveryTickAppendsOneSample ==
    /\ mpc # "crashed"
    /\ (stop_cause # "interrupt" /\ mpc \notin {"tt_smi", "update"})
          => Len(metrics_history) = ticks

C3_DurationBoundTerminates ==
    (mpc = "sleep" /\ duration # Null /\ duration.v >= 0) => elapsed < duration.v

\* C8: the timestamps of the samples increase strictly in history order.
C8_TimestampsIncreasing ==
    \A i, j \in 1..Len(metrics_history) :
        i < j => metrics_history[i]["timestamp"].v < metrics_history[j]["timestamp"].v

\* C9: a tick that finds the sensor file absent does not fail, and the sample
\* it appends has a null temperature_c.
C9_AbsentSensorNullTemperature ==
    sensor = "absent" =>
        /\ mpc # "crashed"
        /\ mpc = "print" => LastSample["temperature_c"] = Null

\* C20: the sample a tick appends holds, as timestamp and temperature_c, the
\* values the poller read at that tick; merging the vendor payload replaces
\* neither of them, whatever keys the payload has
C20_PayloadOnlyAdds ==
    [][(mpc = "update" /\ mpc' = "print") =>
          /\ Len(metrics_history') = Len(metrics_history) + 1
          /\ Get(LastSample', "timestamp") = Get(metrics, "timestamp")
          /\ Get(LastSample', "temperature_c") = Get(metrics, "temperature_c")
      ]_vars

----------------------------------------------------------------------------
\* Properties of the benchmark suite (SpecSuite)

\* Every record produced so far, collected or not yet
AllRecords == {results[i] : i \in 1..Len(results)}
                  \cup {run_results[i] : i \in 1..Len(run_results)}

SuiteReturned == spc \in {"summary", "save", "dump", "done", "save_failed"}

IsCpuBaseline(r) == r.device = "CPU" /\ r.speedup_vs_cpu = One

\* C4: a compilation failure for one operator does not abort the suite.
C4_CompileFailureIsolated ==
    compile_failed # {} => spc # "aborted"

\* C5: without the accelerator runtime no accelerator-path step is entered,
\* run_full_suite does not fail, and it returns four records, one per operator
\* in suite order, each with device "CPU" and speedup 1.0.
C5_CpuFallback ==
    (spc # "idle" /\ ~PYBUDA_AVAILABLE) =>
        /\ accel_steps = {}
        /\ spc # "aborted"
        /\ \A r \in AllRecords : IsCpuBaseline(r)
        /\ SuiteReturned =>
             /\ Len(results) = Len(SuiteOrder)
             /\ \A i \in 1..Len(results) : results[i].name = ResultName(SuiteOrder[i])

\* C5 witness: run_full_suite has returned its four records without PyBuda.
C5_Witness ==
    /\ ~PYBUDA_AVAILABLE
    /\ spc = "summary"
    /\ Len(results) = 4

\* C6: every record labelled "CPU" has speedup 1.0, and the Modulus record,
\* whose speedup is fixed at 1.0 and which is timed on the CPU, is labelled "CPU".
C6_SpeedupOneIffCpu ==
    \A r \in AllRecords :
        /\ r.device = "CPU" => r.speedup_vs_cpu = One
        /\ r.name = ResultName("Modulus") => IsCpuBaseline(r)

\* C7: whatever way save_results ends, the report file holds its previous
\* content or the complete report.
C7_SaveAllOrNothing ==
    (report_wanted /\ spc \in {"done", "save_failed"}) =>
        report_file \in {Absent, OldReport,
                         Report(device_type, results, Len(results), TRUE)}

\* C10: with --device cpu no accelerator-path step is entered and every record
\* is a CPU baseline record.
C10_CpuSelectionSkipsAccelerator ==
    (spc # "idle" /\ device_type = "cpu") =>
        /\ accel_steps = {}
        /\ \A r \in AllRecords : IsCpuBaseline(r)

----------------------------------------------------------------------------
\* Properties of the operators (SpecOperators)

\* The clamp-negative rule of the specification on one element
ClampNegative(x) == IF x >= 0 THEN x ELSE 0

\* C11: the clamp-negative operator returns x for every element x >= 0 and 0
\* for every element x < 0, and test_neg2zero asserts exactly that through its
\* expected vector: the expected vector is the rule applied to the test input,
\* and the test passes against the operator
C11_ClampAsTheTestAsserts ==
    /\ (qpc = "done" /\ q_unit = "Neg2ZeroPipeline") =>
          /\ q_out.kind = "tensor"
          /\ Len(q_out.val) = Len(q_in)
          /\ \A i \in 1..Len(q_in) : q_out.val[i] = ClampNegative(q_in[i])
    /\ (qpc = "done" /\ q_unit = "test_neg2zero") =>
          /\ \A i \in 1..Len(q_in) : TestExpected[i] = ClampNegative(q_in[i])
          /\ q_out.kind = "passed"

\* An index tensor that designates a row outside [0, vocab_size)
OutOfRange(vocab_size, x) == \E i \in 1..Len(x) : x[i] \notin 0..(vocab_size - 1)

\* C12 as stated: both lookup pipelines fail with an out-of-range error on an
\* input that designates an index outside [0, vocab_size)
C12_BothPipelinesRaise ==
    (/\ qpc = "done"
     /\ q_unit \in {"VocabMapperPipeline", "VocabGenMapPipeline"}
     /\ OutOfRange(q_vocab, IF q_unit = "VocabMapperPipeline"
                            THEN q_in
                            ELSE [i \in 1..Len(q_in) |-> Long(Abs(q_in[i]))]))
    => q_out.kind = "IndexError"

\* C12 amended: VocabMapperPipeline fails with IndexError exactly when an index
\* is outside [0, vocab_size) and otherwise answers with the rows of its
\* indices; VocabGenMapPipeline never fails and answers, for every raw
\* feature, with row (integer part of |feature|) mod vocab_size
C12_MapperRaisesGenMapWraps ==
    /\ (qpc = "done" /\ q_unit = "VocabMapperPipeline") =>
          IF OutOfRange(q_vocab, q_in)
          THEN q_out.kind = "IndexError"
          ELSE q_out.kind = "tensor" /\ q_out.val = q_in
    /\ (qpc = "done" /\ q_unit = "VocabGenMapPipeline") =>
          /\ q_out.kind = "tensor"
          /\ Len(q_out.val) = Len(q_in)
          /\ \A i \in 1..Len(q_in) :
                q_out.val[i] = (Abs(q_in[i]) \div 2) % q_vocab

\* VocabMapperPipeline has raised on an index equal to vocab_size
C12_Witness ==
    /\ qpc = "done"
    /\ q_unit = "VocabMapperPipeline"
    /\ \E i \in 1..Len(q_in) : q_in[i] = q_vocab
    /\ q_out.kind = "IndexError"

----------------------------------------------------------------------------
\* Further properties of the benchmark suite (SpecSuite)

\* C13: every record computed with iterations >= 1 and a measured time > 0 has
\* a throughput that is >= 0 and finite (a fraction with a positive
\* denominator), for every operator and on the CPU and the hardware path
C13_ThroughputNonNegativeFinite ==
    \A r \in AllRecords :
        (r.iterations >= 1 /\ r.total_time_s > 0) =>
            /\ r.throughput_gbs.num >= 0
            /\ r.throughput_gbs.den > 0

\* A suite run has produced a CPU-path record and the hardware-path record of
\* the stateful operator, both with at least one iteration
C13_Witness ==
    /\ \E r \in AllRecords :
          /\ r.name = ResultName("Modulus")
          /\ r.iterations >= 1
          /\ r.throughput_gbs.num > 0
    /\ \E r \in AllRecords :
          /\ r.name = ResultName("VocabMap")
          /\ r.speedup_vs_cpu # One
          /\ r.iterations >= 1
          /\ r.throughput_gbs.num > 0

----------------------------------------------------------------------------
\* Properties of the poller's run with interval 0.1 s and duration 0.5 s
\* (SpecScenario)

\* C14 as stated: the run appends between 4 and 6 samples and then returns
\* normally without writing a file, however long a tick takes
C14_FourToSixSamples ==
    tpc = "exit" => (t_samples \in 4..6 /\ ~t_file)

\* C14 amended: the run never writes a file; when the loop ends by its
\* duration test the history holds at least 1 sample, at most 6 unless the
\* clock was set back, and at least 4 when every tick took at most 0.05 s and
\* every sleep overran by at most 0.05 s
C14_SamplesByTickDuration ==
    /\ ~t_file
    /\ tpc \in {"returned", "exit"} =>
          /\ t_samples >= 1
          /\ ~t_set_back => t_samples <= 6
          /\ ~t_slow => t_samples >= 4

\* A run of fast ticks has ended by its duration test with 4 samples
C14_Witness ==
    /\ tpc = "exit"
    /\ t_samples = 4
    /\ ~t_slow
    /\ ~t_set_back
    /\ ~t_file

\* C15 as stated: in a suite run with the accelerator available every operator
\* contributes two records, the CPU baseline's first and the accelerator's
\* second
C15_RecordPerBackend ==
    (SuiteReturned /\ PYBUDA_AVAILABLE) =>
        /\ Len(results) = 2 * Len(SuiteOrder)
        /\ \A k \in 1..Len(SuiteOrder) :
              /\ results[2 * k - 1].name = ResultName(SuiteOrder[k])
              /\ results[2 * k - 1].device = "CPU"
              /\ results[2 * k].name = ResultName(SuiteOrder[k])
              /\ results[2 * k].device = device_type

\* C15 amended: each benchmark returns one record per operator, so a suite run
\* contributes exactly four records in suite order, with or without the
\* accelerator; with the accelerator available the one record of an operator
\* carries the configured device as its device, and the CPU baseline of the
\* operator has no record of its own
C15_OneRecordPerOperator ==
    /\ Len(run_results) <= Len(SuiteOrder)
    /\ \A k \in 1..Len(run_results) :
          run_results[k].name = ResultName(SuiteOrder[k])
    /\ SuiteReturned =>
          /\ Len(results) = Len(SuiteOrder)
          /\ \A k \in 1..Len(SuiteOrder) :
                /\ results[k].name = ResultName(SuiteOrder[k])
                /\ PYBUDA_AVAILABLE => results[k].device = device_type

\* A suite run on the accelerator has returned, the first record being a
\* hardware-path record
C15_Witness ==
    /\ SuiteReturned
    /\ PYBUDA_AVAILABLE
    /\ device_type = "silicon"
    /\ iterations >= 1
    /\ Len(results) = Len(SuiteOrder)
    /\ results[1].speedup_vs_cpu # One

\* C17: in every stateless benchmark the batch handed to the operator has
\* min(1,048,576, element count) elements, and the timed iterations together
\* cover the requested data volume: batch size times iterations is at least the
\* element count of the requested size
C17_IterationsCoverRequestedSize ==
    (/\ spc \in {"cpu_timing", "branch"}
     /\ CurrentOp \in {"Neg2Zero", "Logarithm", "Modulus"}
     /\ iterations >= 1)
    => /\ batch_size = Min(BatchCap, Elements(data_size_mb))
       /\ batch_size * iterations >= Elements(data_size_mb)

----------------------------------------------------------------------------
\* Properties of repeated run_full_suite calls (SpecSuiteRuns)

IsPrefix(a, b) == Len(a) <= Len(b) /\ SubSeq(b, 1, Len(a)) = a

\* r is a concatenation of complete groups, each in suite order
CompleteGroups(r) ==
    /\ Len(r) % Len(SuiteOrder) = 0
    /\ \A i \in 1..Len(r) :
          r[i].name = ResultName(SuiteOrder[((i - 1) % Len(SuiteOrder)) + 1])

\* C19: over any sequence of run_full_suite calls, failing ones included, no
\* step changes or removes a record of self.results; a step appends nothing
\* or one complete group of four records in suite order; a call that fails
\* appends nothing and a call that succeeds appends exactly four; and
\* save_results writes the records in the order of self.results
C19_CompleteGroupsOnly ==
    [][/\ IsPrefix(results, results')
       /\ Len(results') \in {Len(results), Len(results) + Len(SuiteOrder)}
       /\ CompleteGroups(results')
       /\ spc' = "aborted" => results' = results
       /\ (spc' = "generate" /\ spc = "aborted") => results' = results
       /\ (spc' = "summary" /\ spc # "summary") =>
             Len(results') = Len(results) + Len(SuiteOrder)
       /\ spc' = "done" =>
             report_file' = Report(device_type, results', Len(results'), TRUE)
      ]_vars

\* A suite that held an earlier group has had a call fail, was called again
\* with success, and has saved its two groups
C19_Witness ==
    /\ recalled
    /\ compile_failed # {}
    /\ spc = "done"
    /\ Len(results) = 2 * Len(SuiteOrder)
    /\ report_file = Report(device_type, results, Len(results), TRUE)

----------------------------------------------------------------------------
\* Properties of all benchmarks: the suite and the example scripts
\* (SpecBenchmarks)

\* C16: every step that times an operator on the accelerator starts from the
\* end of the warm-up loop with exactly 10 warm-up invocations made, the
\* warm-up loop is entered only by a successful compilation of the operator,
\* and the CPU baseline time of the operator is already measured; a warm-up
\* invocation happens only outside the timed intervals; the CPU baseline is
\* timed with no warm-up invocation made for the operator. In the example
\* scripts, which time no CPU baseline, the timed interval likewise opens
\* after exactly 10 warm-up invocations and holds none.
C16_WarmupBeforeAcceleratorTiming ==
    [][/\ hw_time' # hw_time /\ hw_time' > 0 =>
             /\ spc = "warmup"
             /\ warmups = WarmupRuns
             /\ warmups' = warmups
             /\ cpu_time > 0
       /\ spc' = "warmup" /\ spc # "warmup" =>
             /\ spc = "branch"
             /\ "compile" \in accel_steps'
             /\ compile_failed' = compile_failed
             /\ warmups' = 0
       /\ warmups' # warmups /\ warmups' > 0 =>
             /\ spc = "warmup" /\ spc' = "warmup"
             /\ warmups' = warmups + 1
             /\ hw_time = 0 /\ hw_time' = 0
             /\ cpu_time > 0 /\ cpu_time' = cpu_time
       /\ cpu_time' # cpu_time /\ cpu_time' > 0 =>
             /\ warmups = 0 /\ warmups' = 0
             /\ hw_time = 0
       /\ x_timing' /\ ~x_timing =>
             /\ x_warmups = ExampleWarmupRuns
             /\ xpc = "warmup"
       /\ x_warmups' # x_warmups =>
             /\ x_warmups' = x_warmups + 1
             /\ ~x_timing /\ ~x_timing'
       /\ x_timing => x_warmups' = x_warmups
      ]_vars

\* The accelerator timing of an operator has just finished, after 10 warm-up
\* invocations and after its CPU baseline
C16_Witness ==
    /\ spc = "hw_result"
    /\ CurrentOp = "VocabMap"
    /\ warmups = WarmupRuns
    /\ cpu_time > 0
    /\ hw_time > 0

\* The positions of a suite benchmark after its input was generated
AfterGenerate == {"cpu_timing", "branch", "warmup", "hw_result"}

\* C18 as stated: in every timing loop a vocabulary-lookup benchmark draws a
\* fresh random batch in each timed iteration, and a clamp or logarithm
\* benchmark draws none inside its timed iterations
C18_VocabRedrawsClampReuses ==
    /\ (spc \in {"branch", "hw_result"} /\ CurrentOp = "VocabMap") =>
          draws = 1 + iterations
    /\ (spc \in AfterGenerate /\ CurrentOp \in {"Neg2Zero", "Logarithm"}) =>
          draws = 1
    /\ (xpc = "done" /\ script = "vocab_mapper") =>
          x_timed_draws = num_iterations
    /\ (xpc = "done" /\ script = "neg2zero_pipeline") =>
          x_timed_draws = 0

\* C18 amended: the difference lies between the programs, not between the
\* operators. Every benchmark of the suite, the vocabulary lookup included,
\* generates one input before its loops and invokes the operator on it in
\* every timed iteration; benchmark_throughput of either example script, the
\* clamp included, draws a fresh random input in each timed iteration, after
\* one drawn for the compilation and one for each of the 10 warm-up calls
C18_SuiteReusesExamplesRedraw ==
    /\ spc \in AfterGenerate => draws = 1
    /\ xpc \in {"timing", "done"} =>
          /\ x_timed_draws = x_iter
          /\ x_draws = 1 + ExampleWarmupRuns + x_iter
    /\ xpc = "done" => x_timed_draws = num_iterations

\* The clamp example has finished a timed loop of two iterations, each on an
\* input of its own
C18_Witness ==
    /\ xpc = "done"
    /\ script = "neg2zero_pipeline"
    /\ num_iterations = 2
    /\ x_timed_draws = 2
====
